---------------------------- MODULE Spec2Model ----------------------------
(***************************************************************************)
(* Model of the generation-and-quality-gate loop of obrix-backend:         *)
(*   src/openai.js        generateSiteHTML and its quality gates           *)
(*   src/unnamed/part_004 the POST /generate-site handler that calls it    *)
(*                                                                         *)
(* A document is a sequence of lexical tokens.  Every token stands for a   *)
(* fixed piece of text; the regular expressions of the source are          *)
(* evaluated on the token sequence, using for each token what the          *)
(* expression looks at (which text it is, and whether its first and last   *)
(* characters are word characters, which decides \b).                      *)
(*                                                                         *)
(*   "DOCTYPE"      <!doctype html>          "SP"    white space           *)
(*   "TAG"          <div>, </body>, ...      "TXT"   a word, e.g. Obrix    *)
(*   "H_OPEN"       <h2>                     "H_CLOSE"  </h2>              *)
(*   "FAST" "CUSTOMIZABLE" "RELIABLE"        the words, in any case        *)
(*   "LINK"         <link rel="stylesheet" href="a.css">                   *)
(*   "LINK_CDN"     <link rel='stylesheet'                                 *)
(*                        href='https://fonts.googleapis.com/x'>           *)
(*   "SCRIPT_SRC"   <script src="a.js">      "IFRAME"  <iframe>            *)
(*   "IMPORT"       @import                                                *)
(*   "CDN"          https://cdn.example.com/logo.png                       *)
(*   "DATA"         data:image/png;base64,iVBORw0KGgo                      *)
(*   "NONE"         none                                                   *)
(*   "LOGO"         %%LOGO_DATA_URL%%        "BG"    %%BG_DATA_URL%%       *)
(***************************************************************************)
EXTENDS Integers, Sequences, FiniteSets, TLC

(* ------------------------------ bounds -------------------------------- *)

\* Largest value of the MAX_RETRIES environment variable that is explored.
MaxR == 2

(* --------------------------- program constants ------------------------ *)

\* Number(process.env.MAX_RETRIES || 2): the retry count when the variable is unset.
DefaultRetries == 2

LOGO_TOKEN == "LOGO"
BG_TOKEN == "BG"

R_DOCTYPE == "HTML must start with <!doctype html>."
R_EXTERNAL == "Contains external resources (fonts/scripts/iframes/CDNs)."
R_HEADINGS == "Uses generic headings (Fast/Customizable/Reliable)."
R_PLACEHOLDERS == "Missing asset placeholders %%LOGO_DATA_URL%% / %%BG_DATA_URL%%."

Reasons == {R_DOCTYPE, R_EXTERNAL, R_HEADINGS, R_PLACEHOLDERS}

(* ------------------------------ tokens -------------------------------- *)

\* Tokens whose first character is a word character ([A-Za-z0-9_]).
StartsWithWordChar == {"TXT", "FAST", "CUSTOMIZABLE", "RELIABLE", "CDN", "DATA", "NONE"}

\* Tokens whose last character is a word character.
EndsWithWordChar == StartsWithWordChar \cup {"IMPORT"}

\* Tokens of the form <...>, which /<[^>]+>/ matches whole.
TagTokens == {"DOCTYPE", "TAG", "H_OPEN", "H_CLOSE", "LINK", "LINK_CDN", "SCRIPT_SRC", "IFRAME"}

\* Tokens that contain //fonts. , //cdn. or another host fragment of the deny-list.
DeniedHostTokens == {"CDN", "LINK_CDN"}

StylesheetLinkTokens == {"LINK", "LINK_CDN"}

(* --------------------------- string helpers --------------------------- *)

RECURSIVE TrimStart(_)
TrimStart(s) ==
  IF s # <<>> /\ Head(s) = "SP" THEN TrimStart(Tail(s)) ELSE s

RECURSIVE TrimEnd(_)
TrimEnd(s) ==
  IF s # <<>> /\ s[Len(s)] = "SP" THEN TrimEnd(SubSeq(s, 1, Len(s) - 1)) ELSE s

\* String.prototype.trim
Trim(s) == TrimEnd(TrimStart(s))

\* String.prototype.includes for a one-token needle
Includes(s, tok) == \E i \in DOMAIN s : s[i] = tok

\* The position before token i is a \b boundary next to a non-word character
\* exactly when the text before it ends in a word character.
PrecededByWordChar(s, i) == i > 1 /\ s[i - 1] \in EndsWithWordChar

FollowedByWordChar(s, i) == i < Len(s) /\ s[i + 1] \in StartsWithWordChar

\* Least index >= from whose token is in toks, 0 when there is none.
FirstIndex(s, from, toks) ==
  LET hits == {j \in DOMAIN s : j >= from /\ s[j] \in toks}
  IN  IF hits = {} THEN 0 ELSE CHOOSE j \in hits : \A k \in hits : j <= k

RECURSIVE Flatten(_)
Flatten(ss) == IF ss = <<>> THEN <<>> ELSE Head(ss) \o Flatten(Tail(ss))

(* ---------------------------- quality gates --------------------------- *)

\* /^<!doctype html>/i.test(html.trim()); typeof html === "string" holds of
\* every value the model passes, all of them token sequences.
isValidHTML(html) ==
  LET t == Trim(html) IN t # <<>> /\ Head(t) = "DOCTYPE"

\* The five alternatives of violatesExternal, in the order of the source:
\* the host deny-list, then \b<link\b...rel=stylesheet, \b<script\b...src=,
\* \b@import\b and \b<iframe\b.  A \b in front of '<' or '@' asks for a word
\* character right before it.
violatesExternal(html) ==
  \/ \E i \in DOMAIN html : html[i] \in DeniedHostTokens
  \/ \E i \in DOMAIN html : html[i] \in StylesheetLinkTokens /\ PrecededByWordChar(html, i)
  \/ \E i \in DOMAIN html : html[i] = "SCRIPT_SRC" /\ PrecededByWordChar(html, i)
  \/ \E i \in DOMAIN html :
        html[i] = "IMPORT" /\ PrecededByWordChar(html, i) /\ ~FollowedByWordChar(html, i)
  \/ \E i \in DOMAIN html : html[i] = "IFRAME" /\ PrecededByWordChar(html, i)

\* BANNED_HEADINGS: /^\s*fast\s*$/i, /^\s*customizable\s*$/i, /^\s*reliable\s*$/i
BANNED_HEADINGS == {"FAST", "CUSTOMIZABLE", "RELIABLE"}

\* rx.test(text) for rx = /^\s*word\s*$/i
BannedRxTest(word, text) ==
  \E i \in DOMAIN text : text[i] = word /\ \A j \in DOMAIN text : j # i => text[j] = "SP"

\* html.matchAll(/<h[1-6][^>]*>(.*?)<\/h[1-6]>/gis): group 1 of every match,
\* scanning from index from: the leftmost opening tag, lazily up to the nearest
\* closing tag, then on from behind that closing tag.
RECURSIVE HeadingMatches(_, _)
HeadingMatches(html, from) ==
  LET open == FirstIndex(html, from, {"H_OPEN"})
      close == IF open = 0 THEN 0 ELSE FirstIndex(html, open + 1, {"H_CLOSE"})
  IN  IF open = 0 \/ close = 0 THEN {}
      ELSE {SubSeq(html, open + 1, close - 1)} \cup HeadingMatches(html, close + 1)

\* (m[1] || "").replace(/<[^>]+>/g, "").trim()
HeadingText(inner) == Trim(SelectSeq(inner, LAMBDA t : t \notin TagTokens))

hasBannedHeadings(html) ==
  \E inner \in HeadingMatches(html, 1) :
     \E word \in BANNED_HEADINGS : BannedRxTest(word, HeadingText(inner))

\* Mutant of the placeholder gate: the gate is absent.
missingPlaceholders_Never(html) == FALSE

\* Mutant of the placeholder gate: || in place of &&.
missingPlaceholders_Either(html) == ~Includes(html, LOGO_TOKEN) \/ ~Includes(html, BG_TOKEN)

\* !html.includes("%%LOGO_DATA_URL%%") && !html.includes("%%BG_DATA_URL%%")
missingPlaceholders(html) == ~Includes(html, LOGO_TOKEN) /\ ~Includes(html, BG_TOKEN)

\* Mutant of the gate order: the heading gate runs first.
GateReason_HeadingsFirst(html) ==
  IF hasBannedHeadings(html) THEN R_HEADINGS
  ELSE IF ~isValidHTML(html) THEN R_DOCTYPE
  ELSE IF violatesExternal(html) THEN R_EXTERNAL
  ELSE IF missingPlaceholders(html) THEN R_PLACEHOLDERS
  ELSE ""

\* The gates of one loop iteration in the order of lines 128-135: the reason
\* the iteration records, or "" when it reaches the break.
GateReason(html) ==
  IF ~isValidHTML(html) THEN R_DOCTYPE
  ELSE IF violatesExternal(html) THEN R_EXTERNAL
  ELSE IF hasBannedHeadings(html) THEN R_HEADINGS
  ELSE IF missingPlaceholders(html) THEN R_PLACEHOLDERS
  ELSE ""

(* ------------------------------ injection ----------------------------- *)

\* const inject = (h) => ...: replaceAll of the logo token by the logo data (or
\* ""), then replaceAll of the background token by the background data (or "none").
ReplaceAll(h, tok, by) == Flatten([i \in DOMAIN h |-> IF h[i] = tok THEN by ELSE <<h[i]>>])

inject(h, logoDataUrl, backgroundDataUrl) ==
  LET h1 == ReplaceAll(h, LOGO_TOKEN, IF logoDataUrl # <<>> THEN logoDataUrl ELSE <<>>)
  IN  ReplaceAll(h1, BG_TOKEN, IF backgroundDataUrl # <<>> THEN backgroundDataUrl ELSE <<"NONE">>)


(* --------------------------- external inputs -------------------------- *)

\* Documents the generation API may return: after the doctype, every
\* combination of an external reference, a heading and the placeholders; the
\* four documents of the specification's scenarios A-D; and a document that
\* breaks every rule at once.
ExternalParts == {<<>>, <<"LINK_CDN">>, <<"TAG", "LINK">>, <<"TXT", "IFRAME">>}

HeadingParts ==
  { <<>>,
    <<"H_OPEN", "FAST", "H_CLOSE">>,
    <<"H_OPEN", "FAST", "SP", "TXT", "H_CLOSE">>,
    <<"H_OPEN", "LOGO", "RELIABLE", "H_CLOSE">> }

PlaceholderParts == {<<>>, <<"TAG", "BG", "SP">>}

ScenarioA == <<"DOCTYPE", "TAG", "TAG", "H_OPEN", "FAST", "H_CLOSE", "TAG", "TAG">>
ScenarioB == <<"DOCTYPE", "TAG", "TAG", "LINK_CDN", "TAG", "TAG">>
ScenarioC == <<"TAG", "TXT", "SP", "TXT", "TAG">>
ScenarioD == <<"DOCTYPE", "TAG", "TAG", "H_OPEN", "TXT", "SP", "TXT", "H_CLOSE", "TAG", "TAG">>
BreaksAll == <<"TAG", "LINK_CDN", "H_OPEN", "CUSTOMIZABLE", "H_CLOSE">>

Outputs ==
  {<<"SP", "DOCTYPE">> \o e \o h \o a :
      e \in ExternalParts, h \in HeadingParts, a \in PlaceholderParts}
  \cup {ScenarioA, ScenarioB, ScenarioC, ScenarioD, BreaksAll}

\* Values of res.output_text: a string, undefined, or a number such as 42.
OutputTexts ==
  {[type |-> "string", text |-> d] : d \in Outputs \cup {<<>>}}
  \cup {[type |-> "undefined", text |-> <<>>], [type |-> "number", text |-> <<>>]}

\* Mutant of the state of a call in flight.
Pending_Settled == [type |-> "string", text |-> <<>>]

\* res of an iteration whose call has not settled.
Pending == [type |-> "pending", text |-> <<>>]

\* What client.responses.create does: it throws, or resolves to a response.
ApiResults ==
  {[threw |-> TRUE, output_text |-> [type |-> "undefined", text |-> <<>>]]}
  \cup {[threw |-> FALSE, output_text |-> v] : v \in OutputTexts}

\* process.env.MAX_RETRIES: <<>> when unset or empty, <<n>> when set to n.
EnvValues == {<<>>} \cup {<<n>> : n \in 0..MaxR}

\* Request bodies: name and description present or empty; the logo absent, a
\* data URL or a URL on an external host; the background absent or a data URL.
LogoValues == {<<>>, <<"DATA">>, <<"CDN">>}

BackgroundValues == {<<>>, <<"DATA">>}

Payloads ==
  [name : {"", "Obrix"}, description : {"", "A launchpad."},
   logo : LogoValues, background : BackgroundValues]

\* nanoid results
Ids == {"site_k3v9", "site_x0a7"}

(* -------------------------------- state ------------------------------- *)

VARIABLES
  MAX_RETRIES,  \* process.env.MAX_RETRIES
  payload,      \* req.body
  pc,           \* where the request is: "start", "loop", "awaiting", "post",
                \* "returned", "thrown", "responded"
  id,           \* the handler's id
  attempts,     \* generateSiteHTML: attempts
  html,         \* generateSiteHTML: html
  lastReason,   \* generateSiteHTML: lastReason
  request,      \* the input of the latest client.responses.create call
  output,       \* res.output_text of the current iteration
  calls,        \* number of client.responses.create calls made
  failed,       \* number of iterations that ended in a continue
  error,        \* message of the Error generateSiteHTML threw, <<>> when none
  response,     \* what the handler sent
  files,        \* files written under SITES_DIR
  inj,          \* the substitution step applied on its own (InjectSpec)
  upl,          \* the upload service: clock, upload directory, answers (UploadSpec)
  zip,          \* one POST /api/generate-zip request (ZipSpec)
  conc,         \* concurrent generateSiteHTML calls (ConcSpec)
  hd,           \* the heading rule applied on its own (HeadingSpec, FallbackSpec)
  pub           \* one POST /api/publish request (PublishSpec)

vars ==
  <<MAX_RETRIES, payload, pc, id, attempts, html, lastReason, request, output,
    calls, failed, error, response, files, inj, upl, zip, conc, hd, pub>>

\* The variables of POST /generate-site and generateSiteHTML.
genVars ==
  <<MAX_RETRIES, payload, pc, id, attempts, html, lastReason, request, output,
    calls, failed, error, response, files>>

\* The variables of the other services, which no step of POST /generate-site
\* touches.
others == <<inj, upl, zip, conc, hd, pub>>

\* Their value while the service they belong to is not the one modelled.
Off == [pc |-> "off"]

(* -------------------------- generateSiteHTML -------------------------- *)

\* Number(process.env.MAX_RETRIES || 2)
maxRetries == IF MAX_RETRIES = <<>> THEN DefaultRetries ELSE MAX_RETRIES[1]

\* const brief = {...}; ticker, links and colours play no part in the loop.
brief ==
  [name |-> IF payload.name # "" THEN payload.name ELSE "Untitled Project",
   description |-> IF payload.description # "" THEN payload.description ELSE "A crypto project.",
   logoDataUrl |-> payload.logo,
   backgroundDataUrl |-> payload.background]

primaryPrompt(b) == <<"Build a polished landing page.", b.name, b.description>>

revisionPrompt(reason) == <<"REVISION: Previous HTML failed because: ", reason>>

\* Mutants of the input: the brief is sent as it is, without the override of
\* the two asset fields; the primary prompt is sent on every attempt.
BuildInput_RawAssets(b, n, reason) ==
  [user |-> [name |-> b.name, description |-> b.description,
             logoDataUrl |-> b.logoDataUrl, backgroundDataUrl |-> b.backgroundDataUrl],
   prompt |-> IF n = 1 THEN primaryPrompt(b) ELSE revisionPrompt(reason)]

BuildInput_AlwaysPrimary(b, n, reason) ==
  [user |-> [name |-> b.name, description |-> b.description,
             logoDataUrl |-> <<LOGO_TOKEN>>, backgroundDataUrl |-> <<BG_TOKEN>>],
   prompt |-> primaryPrompt(b)]

\* The second and third message of input; the system message is constant.
BuildInput(b, n, reason) ==
  [user |-> [name |-> b.name, description |-> b.description,
             logoDataUrl |-> <<LOGO_TOKEN>>, backgroundDataUrl |-> <<BG_TOKEN>>],
   prompt |-> IF n = 1 THEN primaryPrompt(b) ELSE revisionPrompt(reason)]

NoRequest ==
  [user |-> [name |-> "", description |-> "", logoDataUrl |-> <<>>, backgroundDataUrl |-> <<>>],
   prompt |-> <<>>]

\* Mutants of the loop test: one iteration too many, one too few.
LoopCondition_OneMore(n, r) == n <= r + 1

LoopCondition_OneLess(n, r) == n < r

\* while (attempts <= maxRetries)
LoopCondition(n, r) == n <= r

\* res.output_text || ""
Truthy(v) == v.type = "number" \/ (v.type = "string" /\ v.text # <<>>)

OrEmpty(v) == IF Truthy(v) THEN v ELSE [type |-> "string", text |-> <<>>]

ExhaustedError(reason) ==
  <<"AI generation failed after retries: ", IF reason # "" THEN reason ELSE "invalid HTML">>

InjectionError == <<"Injection produced invalid HTML (unexpected).">>

\* The message of the error the OpenAI client throws.
UpstreamError == <<"Connection error.">>

\* The TypeError of calling .trim on a value that is not a string.
TrimTypeError == <<"(res.output_text || \"\").trim is not a function">>

\* Mutant of the counter: the increment is forgotten.
NextAttempt_Stuck(n) == n

\* attempts++
NextAttempt(n) == n + 1

\* Mutant of the rejection: it is swallowed and the function never resumes.
OnReject_Hangs(n, r) == "hung"

\* Mutant of the rejection: the loop goes on while attempts remain.
OnReject_Retry(n, r) == IF n <= r THEN "loop" ELSE "thrown"

\* No try/catch encloses the await of lines 120-125: a rejection leaves
\* generateSiteHTML whatever the number of attempts made.
OnReject(n, r) == "thrown"

\* Lines 113-125: the loop test holds, attempts++, the input is built and the
\* call is issued.
Call ==
  /\ pc = "loop"
  /\ LoopCondition(attempts, maxRetries)
  /\ attempts' = NextAttempt(attempts)
  /\ request' = BuildInput(brief, NextAttempt(attempts), lastReason)
  /\ output' = Pending
  /\ calls' = calls + 1
  /\ pc' = "awaiting"
  /\ UNCHANGED <<others, MAX_RETRIES, payload, id, html, lastReason, failed, error, response, files>>

\* The loop test fails: control reaches line 139.
LoopExit ==
  /\ pc = "loop"
  /\ ~LoopCondition(attempts, maxRetries)
  /\ pc' = "post"
  /\ UNCHANGED <<others, MAX_RETRIES, payload, id, attempts, html, lastReason, request, output,
                 calls, failed, error, response, files>>

\* Lines 120-136: the awaited call settles.  A rejection and the TypeError of
\* .trim() leave generateSiteHTML as exceptions; otherwise the gates run in
\* order and the iteration ends in continue or break.
Return(res) ==
  /\ pc = "awaiting"
  /\ IF res.threw
       THEN /\ pc' = OnReject(attempts, maxRetries)
            /\ error' = UpstreamError
            /\ UNCHANGED <<html, lastReason, failed, output>>
       ELSE IF OrEmpty(res.output_text).type # "string"
       THEN /\ pc' = "thrown"
            /\ error' = TrimTypeError
            /\ output' = res.output_text
            /\ UNCHANGED <<html, lastReason, failed>>
       ELSE LET h == Trim(OrEmpty(res.output_text).text)
                reason == GateReason(h)
            IN  /\ output' = res.output_text
                /\ html' = h
                /\ error' = error
                /\ IF reason # ""
                     THEN /\ lastReason' = reason
                          /\ failed' = failed + 1
                          /\ pc' = "loop"
                     ELSE /\ pc' = "post"
                          /\ UNCHANGED <<lastReason, failed>>
  /\ UNCHANGED <<others, MAX_RETRIES, payload, id, attempts, request, calls, response, files>>

\* Lines 139-169: the check after the loop, the injection and the re-check.
Post ==
  /\ pc = "post"
  /\ IF ~isValidHTML(html)
       THEN /\ pc' = "thrown"
            /\ error' = ExhaustedError(lastReason)
            /\ html' = html
       ELSE LET h == inject(html, brief.logoDataUrl, brief.backgroundDataUrl)
            IN  /\ html' = h
                /\ IF ~isValidHTML(h) \/ violatesExternal(h)
                     THEN pc' = "thrown" /\ error' = InjectionError
                     ELSE pc' = "returned" /\ error' = error
  /\ UNCHANGED <<others, MAX_RETRIES, payload, id, attempts, lastReason, request, output, calls,
                 failed, response, files>>

(* ------------------------- POST /generate-site ------------------------ *)

NoResponse == [status |-> 0]

BadRequest == [status |-> 400, error |-> "Missing required fields (name or description)."]

\* res.json({ id, url, html, source: "ai", quality_gate: "passed" })
Success(i, h) ==
  [status |-> 200, id |-> i, url |-> <<"BASE_URL", "/sites/", i, "/">>, html |-> h,
   source |-> "ai", quality_gate |-> "passed"]

\* res.status(502).json({ error, message, detail: err.message })
Failure(msg) ==
  [status |-> 502, error |-> "AI_GENERATION_FAILED",
   message |-> "Generator could not produce a high-quality HTML page.",
   detail |-> msg]

\* Mutant of the body check: || in place of &&.
MissingRequired_Either(p) == p.name = "" \/ p.description = ""

\* !payload?.name && !payload?.description
MissingRequired(p) == p.name = "" /\ p.description = ""

\* Mutant of the write: every document goes to the same directory.
WrittenFile_SharedDir(i, h) == [dir |-> "site", file |-> "index.html", content |-> h]

\* path.join(SITES_DIR, id, "index.html") with content html
WrittenFile(i, h) == [dir |-> i, file |-> "index.html", content |-> h]

\* Lines 313-320: the id is drawn, the body is checked, generateSiteHTML starts.
HandlerStart(i) ==
  /\ pc = "start"
  /\ id' = i
  /\ IF MissingRequired(payload)
       THEN pc' = "responded" /\ response' = BadRequest
       ELSE pc' = "loop" /\ response' = response
  /\ UNCHANGED <<others, MAX_RETRIES, payload, attempts, html, lastReason, request, output, calls,
                 failed, error, files>>

\* Lines 321-325: the document is written and sent.
RespondOk ==
  /\ pc = "returned"
  /\ files' = files \cup {WrittenFile(id, html)}
  /\ response' = Success(id, html)
  /\ pc' = "responded"
  /\ UNCHANGED <<others, MAX_RETRIES, payload, id, attempts, html, lastReason, request, output,
                 calls, failed, error>>

\* Lines 326-333: the catch clause.
RespondError ==
  /\ pc = "thrown"
  /\ response' = Failure(error)
  /\ pc' = "responded"
  /\ UNCHANGED <<others, MAX_RETRIES, payload, id, attempts, html, lastReason, request, output,
                 calls, failed, error, files>>

Init ==
  /\ MAX_RETRIES \in EnvValues
  /\ payload \in Payloads
  /\ pc = "start"
  /\ id = ""
  /\ attempts = 0
  /\ html = <<>>
  /\ lastReason = ""
  /\ request = NoRequest
  /\ output = Pending
  /\ calls = 0
  /\ failed = 0
  /\ error = <<>>
  /\ response = NoResponse
  /\ files = {}
  /\ inj = Off /\ upl = Off /\ zip = Off /\ conc = Off /\ hd = Off /\ pub = Off

Next ==
  \/ \E i \in Ids : HandlerStart(i)
  \/ Call
  \/ LoopExit
  \/ \E res \in ApiResults : Return(res)
  \/ Post
  \/ RespondOk
  \/ RespondError

Spec == Init /\ [][Next]_vars

\* The handler with its scheduling.  One outcome of the call of each kind:
\* it rejects; it resolves with a number, with a document that passes the
\* gates, with one that has a banned heading, with one without the doctype.
LiveResults ==
  { [threw |-> TRUE, output_text |-> [type |-> "undefined", text |-> <<>>]],
    [threw |-> FALSE, output_text |-> [type |-> "number", text |-> <<>>]],
    [threw |-> FALSE, output_text |-> [type |-> "string", text |-> <<"SP", "DOCTYPE", "TAG", "BG", "SP">>]],
    [threw |-> FALSE, output_text |-> [type |-> "string", text |-> ScenarioA]],
    [threw |-> FALSE, output_text |-> [type |-> "string", text |-> ScenarioC]] }

LiveInit == Init /\ payload.description = "" /\ payload.background = <<>>

LiveNext ==
  \/ \E i \in Ids : HandlerStart(i)
  \/ Call
  \/ LoopExit
  \/ \E res \in LiveResults : Return(res)
  \/ Post
  \/ RespondOk
  \/ RespondError

\* The handler is one sequential async function: the step that is ready is
\* run by the event loop, and every external call eventually resolves or
\* rejects.
LiveSpec == LiveInit /\ [][LiveNext]_vars /\ WF_vars(LiveNext)


(* ------------------- the substitution step on its own ------------------ *)

\* The generation handler at rest, for the specifications of the other
\* operations of the server.
GenIdle ==
  /\ MAX_RETRIES = <<>>
  /\ payload = [name |-> "", description |-> "", logo |-> <<>>, background |-> <<>>]
  /\ pc = "idle"
  /\ id = ""
  /\ attempts = 0
  /\ html = <<>>
  /\ lastReason = ""
  /\ request = NoRequest
  /\ output = Pending
  /\ calls = 0
  /\ failed = 0
  /\ error = <<>>
  /\ response = NoResponse
  /\ files = {}

MaxInjectLen == 2

RECURSIVE SeqsUpTo(_, _)
SeqsUpTo(S, n) ==
  IF n = 0 THEN {<<>>}
  ELSE LET shorter == SeqsUpTo(S, n - 1)
       IN  shorter \cup {Append(q, x) : q \in shorter, x \in S}

\* Documents handed to inject, and the values of brief.logoDataUrl and
\* brief.backgroundDataUrl: any strings, absent (<<>>), a data URL, or text
\* in which a placeholder token occurs.
InjectDocs == SeqsUpTo({"DOCTYPE", "TXT", LOGO_TOKEN, BG_TOKEN}, MaxInjectLen)

InjectAssets == {<<>>, <<"DATA">>, <<LOGO_TOKEN>>, <<BG_TOKEN>>}

InjectInit ==
  /\ GenIdle
  /\ upl = Off /\ zip = Off /\ conc = Off /\ hd = Off /\ pub = Off
  /\ \E h \in InjectDocs, l \in InjectAssets, b \in InjectAssets :
        inj = [pc |-> "ready", h |-> h, logoDataUrl |-> l, backgroundDataUrl |-> b,
               once |-> <<>>, twice |-> <<>>, result |-> ""]

\* Lines 139-169 with html = h: the check before the injection, the
\* injection, the re-check and the return.
AfterLoop(h, injected) ==
  IF ~isValidHTML(h) THEN "thrown"
  ELSE IF ~isValidHTML(injected) \/ violatesExternal(injected) THEN "thrown"
  ELSE "returned"

\* html = inject(html)
InjectOnce ==
  /\ inj.pc = "ready"
  /\ LET injected == inject(inj.h, inj.logoDataUrl, inj.backgroundDataUrl)
     IN  inj' = [inj EXCEPT !.pc = "once",
                           !.once = injected,
                           !.result = AfterLoop(inj.h, injected)]
  /\ UNCHANGED <<genVars, upl, zip, conc, hd, pub>>

\* inject applied to its own result
InjectAgain ==
  /\ inj.pc = "once"
  /\ inj' = [inj EXCEPT !.pc = "twice",
                        !.twice = inject(inj.once, inj.logoDataUrl, inj.backgroundDataUrl)]
  /\ UNCHANGED <<genVars, upl, zip, conc, hd, pub>>

InjectNext ==
  \/ InjectOnce
  \/ InjectAgain

InjectSpec == InjectInit /\ [][InjectNext]_vars

(* ------------------------------- uploads ------------------------------- *)

MaxUploads == 3
MaxClock == 2
MaxNameLen == 1

\* Characters of an original file name: two of [a-zA-Z0-9._-], and one that
\* is not.
SafeChars == {"a", "_"}

NameChars == SafeChars \cup {" "}

\* file.originalname; <<>> is the absent name.
OriginalNames == SeqsUpTo(NameChars, MaxNameLen)

\* .replace(/[^a-zA-Z0-9._-]/g, '_')
Sanitize(name) == [i \in DOMAIN name |-> IF name[i] \in SafeChars THEN name[i] ELSE "_"]

\* `${Date.now()}-${base}`
StoredName(now, originalname) ==
  <<now, "-">> \o Sanitize(IF originalname # <<>> THEN originalname ELSE <<"file">>)

UploadInit ==
  /\ GenIdle
  /\ inj = Off /\ zip = Off /\ conc = Off /\ hd = Off /\ pub = Off
  /\ upl = [pc |-> "serving", now |-> 0, count |-> 0, disk |-> {}, responses |-> {}]

\* The clock moves on by a millisecond.
Tick ==
  /\ upl.pc = "serving"
  /\ upl.now < MaxClock
  /\ upl' = [upl EXCEPT !.now = upl.now + 1]
  /\ UNCHANGED <<genVars, inj, zip, conc, hd, pub>>

\* POST /api/upload-logo or /api/upload-background with a file: multer writes
\* the file under the name storage.filename gives, replacing a file of that
\* name, and the handler answers with the path.
Upload(originalname) ==
  /\ upl.pc = "serving"
  /\ upl.count < MaxUploads
  /\ LET n == upl.count + 1
         filename == StoredName(upl.now, originalname)
     IN  upl' = [upl EXCEPT
                   !.count = n,
                   !.disk = {f \in upl.disk : f.filename # filename}
                              \cup {[filename |-> filename, content |-> n]},
                   !.responses = upl.responses
                              \cup {[upload |-> n, path |-> <<"/uploads/">> \o filename]}]
  /\ UNCHANGED <<genVars, inj, zip, conc, hd, pub>>

UploadNext ==
  \/ Tick
  \/ \E originalname \in OriginalNames : Upload(originalname)

UploadSpec == UploadInit /\ [][UploadNext]_vars

(* ----------------------------- zip export ------------------------------ *)

\* A piece of a document of the zip route: its kind and, for a reference to
\* ./assets/<file>, the file.
Piece(kind) == [kind |-> kind, name |-> ""]

AssetRef(kind, file) == [kind |-> kind, name |-> file]

\* Index of the first piece of one of the kinds, 0 when there is none.
KindIndex(h, kinds) ==
  IF \E i \in DOMAIN h : h[i].kind \in kinds
    THEN CHOOSE i \in DOMAIN h : h[i].kind \in kinds /\ \A j \in 1..(i - 1) : h[j].kind \notin kinds
    ELSE 0

\* String.prototype.replace with a pattern that matches one piece: the first
\* match is replaced, a document without a match is left as it is.
ReplaceFirst(h, kinds, by) ==
  LET i == KindIndex(h, kinds)
  IN  IF i = 0 THEN h ELSE SubSeq(h, 1, i - 1) \o by \o SubSeq(h, i + 1, Len(h))

\* The same with '$&' at the start or the end of the replacement.
InsertAfterFirst(h, kinds, toks) ==
  LET i == KindIndex(h, kinds)
  IN  IF i = 0 THEN h ELSE SubSeq(h, 1, i) \o toks \o SubSeq(h, i + 1, Len(h))

InsertBeforeFirst(h, kinds, toks) ==
  LET i == KindIndex(h, kinds)
  IN  IF i = 0 THEN h ELSE SubSeq(h, 1, i - 1) \o toks \o SubSeq(h, i, Len(h))

\* logoUrl and backgroundUrl of the request body: absent, or a string with the
\* part before the last '/' and path.basename of it.
NoUrl == [prefix |-> "", base |-> ""]

UrlTruthy(u) == u # NoUrl

LogoUrls ==
  { NoUrl,
    [prefix |-> "/uploads/", base |-> "1-logo.png"],
    [prefix |-> "/uploads/", base |-> "1-gone.png"],
    [prefix |-> "https://api.useobrixlabs.com/uploads/", base |-> "1-logo.png"] }

BackgroundUrls ==
  { NoUrl,
    [prefix |-> "/uploads/", base |-> "1-bg.png"],
    [prefix |-> "https://api.useobrixlabs.com/uploads/", base |-> "1-bg.png"] }

\* The files of UPLOAD_DIR.
UploadDir == {"1-logo.png", "1-bg.png"}

\* Documents generateIndexHtml may give: a full page, one with the logo
\* marker, one with its own background image and logo, one without head and
\* body, one that is empty.
ZipDocs ==
  { <<Piece("html"), Piece("head"), Piece("/head"), Piece("body"), Piece("/body")>>,
    <<Piece("html"), Piece("head"), Piece("/head"), Piece("body"), Piece("logo-marker"), Piece("/body")>>,
    <<Piece("html"), Piece("head"), Piece("css-var"), Piece("background-image"), Piece("/head"),
      Piece("body"), Piece("site-logo"), Piece("/body")>>,
    <<Piece("html"), Piece("text")>>,
    <<>> }

\* injectAssets(html, { logoUrl, backgroundUrl, bgColor }, 'zip')
injectAssets(out, logoUrl, backgroundUrl) ==
  LET has(h, kind) == KindIndex(h, {kind}) # 0
      o1 == IF ~has(out, "/head")
              THEN InsertAfterFirst(out, {"html"}, <<Piece("head"), Piece("/head")>>)
              ELSE out
      o2 == IF ~has(o1, "/body")
              THEN ReplaceFirst(o1, {"/head"}, <<Piece("/head"), Piece("body"), Piece("/body")>>)
              ELSE o1
      o3 == IF ~has(o2, "css-var")
              THEN InsertBeforeFirst(o2, {"/head"}, <<Piece("css-var")>>)
              ELSE o2
      bgRef == AssetRef("background-image", backgroundUrl.base)
      o4 == IF UrlTruthy(backgroundUrl)
              THEN IF KindIndex(o3, {"background-image"}) = 0
                     THEN InsertBeforeFirst(o3, {"/head"}, <<bgRef>>)
                     ELSE ReplaceFirst(o3, {"background-image"}, <<bgRef>>)
              ELSE o3
      logoTag == AssetRef("site-logo", logoUrl.base)
      o5 == IF UrlTruthy(logoUrl)
              THEN IF has(o4, "logo-marker")
                     THEN ReplaceFirst(o4, {"logo-marker"}, <<logoTag>>)
                     ELSE IF ~has(o4, "site-logo")
                            THEN InsertAfterFirst(o4, {"body"}, <<logoTag>>)
                            ELSE o4
              ELSE o4
  IN  o5

\* The entries added after index.html: an asset enters the archive when its
\* URL starts with /uploads/ and the file exists.
AssetEntries(u) ==
  IF UrlTruthy(u) /\ u.prefix = "/uploads/" /\ u.base \in UploadDir
    THEN {[dir |-> "assets", name |-> u.base]}
    ELSE {}

ZipBodies ==
  [name : {"", "Obrix"}, ticker : {"", "OBX"}, description : {"", "A launchpad."},
   logoUrl : LogoUrls, backgroundUrl : BackgroundUrls]

\* !name || !ticker || !description
ZipMissingRequired(b) == b.name = "" \/ b.ticker = "" \/ b.description = ""

ZipInit ==
  /\ GenIdle
  /\ inj = Off /\ upl = Off /\ conc = Off /\ hd = Off /\ pub = Off
  /\ \E b \in ZipBodies :
        zip = [pc |-> "received", body |-> b, html |-> <<>>, status |-> 0, entries |-> {}]

\* if (!name || !ticker || !description) return res.status(400)
ZipReject ==
  /\ zip.pc = "received"
  /\ ZipMissingRequired(zip.body)
  /\ zip' = [zip EXCEPT !.pc = "done", !.status = 400]
  /\ UNCHANGED <<genVars, inj, upl, conc, hd, pub>>

\* generateIndexHtml resolves; code fences are stripped, the assets injected.
ZipGenerate(doc) ==
  /\ zip.pc = "received"
  /\ ~ZipMissingRequired(zip.body)
  /\ zip' = [zip EXCEPT !.pc = "injected",
                        !.html = injectAssets(doc, zip.body.logoUrl, zip.body.backgroundUrl)]
  /\ UNCHANGED <<genVars, inj, upl, conc, hd, pub>>

\* generateIndexHtml rejects: the catch clause answers 500.
ZipGenerateFails ==
  /\ zip.pc = "received"
  /\ ~ZipMissingRequired(zip.body)
  /\ zip' = [zip EXCEPT !.pc = "done", !.status = 500]
  /\ UNCHANGED <<genVars, inj, upl, conc, hd, pub>>

\* The archive is piped to the response: index.html, then the assets.
ZipSend ==
  /\ zip.pc = "injected"
  /\ zip' = [zip EXCEPT
               !.pc = "done",
               !.status = 200,
               !.entries = {[dir |-> "", name |-> "index.html"]}
                             \cup AssetEntries(zip.body.logoUrl)
                             \cup AssetEntries(zip.body.backgroundUrl)]
  /\ UNCHANGED <<genVars, inj, upl, conc, hd, pub>>

ZipNext ==
  \/ ZipReject
  \/ \E doc \in ZipDocs : ZipGenerate(doc)
  \/ ZipGenerateFails
  \/ ZipSend

ZipSpec == ZipInit /\ [][ZipNext]_vars

(* ------------------- two generateSiteHTML calls at once ---------------- *)

\* The requests in flight.
Requests == {1, 2}

\* Outputs of the API for these calls: one that passes the gates, one that
\* passes and holds the logo token, one with a banned heading, one without
\* the doctype.
ConcOutputs ==
  { <<"DOCTYPE", "TAG", "BG", "SP">>,
    <<"SP", "DOCTYPE", "LOGO">>,
    ScenarioA,
    ScenarioC }

ConcBriefs == [logoDataUrl : {<<"DATA">>, <<"CDN">>}, backgroundDataUrl : {<<>>}]

\* The locals of one call (lines 94-111) before its first iteration; prompt
\* is the reason in the prompt of its last request ("" in the primary
\* prompt), outs the outputs it received, rejected whether its call threw.
NewCall(b) ==
  [pc |-> "loop", brief |-> b, attempts |-> 0, html |-> <<>>, lastReason |-> "",
   prompt |-> "", outs |-> <<>>, rejected |-> FALSE]

\* Mutant of the variable a call reads for its revision prompt: the
\* lastReason of the other call, as if it were declared at module level.
ReasonRead_Other(c, r) == c.req[3 - r].lastReason

\* lastReason is declared with let inside generateSiteHTML: each call reads
\* its own.
ReasonRead(c, r) == c.req[r].lastReason

ConcInit ==
  /\ GenIdle
  /\ inj = Off /\ upl = Off /\ zip = Off /\ hd = Off /\ pub = Off
  /\ \E b1 \in ConcBriefs, b2 \in ConcBriefs :
        conc = [pc |-> "serving", req |-> [r \in Requests |-> NewCall(IF r = 1 THEN b1 ELSE b2)]]

\* Lines 113-125 for call r.
ConcCall(r) ==
  LET q == conc.req[r]
  IN  /\ conc.pc = "serving"
      /\ q.pc = "loop"
      /\ LoopCondition(q.attempts, DefaultRetries)
      /\ conc' = [conc EXCEPT !.req[r] =
                    [q EXCEPT !.pc = "awaiting",
                              !.attempts = q.attempts + 1,
                              !.prompt = IF q.attempts + 1 = 1 THEN "" ELSE ReasonRead(conc, r)]]
      /\ UNCHANGED <<genVars, inj, upl, zip, hd, pub>>

\* The while condition fails for call r.
ConcLoopExit(r) ==
  LET q == conc.req[r]
  IN  /\ conc.pc = "serving"
      /\ q.pc = "loop"
      /\ ~LoopCondition(q.attempts, DefaultRetries)
      /\ conc' = [conc EXCEPT !.req[r] = [q EXCEPT !.pc = "post"]]
      /\ UNCHANGED <<genVars, inj, upl, zip, hd, pub>>

\* Lines 126-136 for call r: its awaited call resolves with d.
ConcReturn(r, d) ==
  LET q == conc.req[r]
      h == Trim(d)
      reason == GateReason(h)
  IN  /\ conc.pc = "serving"
      /\ q.pc = "awaiting"
      /\ conc' = [conc EXCEPT !.req[r] =
                    [q EXCEPT !.pc = IF reason # "" THEN "loop" ELSE "post",
                              !.html = h,
                              !.lastReason = IF reason # "" THEN reason ELSE q.lastReason,
                              !.outs = Append(q.outs, d)]]
      /\ UNCHANGED <<genVars, inj, upl, zip, hd, pub>>

\* The awaited call of r rejects.
ConcReject(r) ==
  LET q == conc.req[r]
  IN  /\ conc.pc = "serving"
      /\ q.pc = "awaiting"
      /\ conc' = [conc EXCEPT !.req[r] = [q EXCEPT !.pc = "thrown", !.rejected = TRUE]]
      /\ UNCHANGED <<genVars, inj, upl, zip, hd, pub>>

\* Lines 139-169 for call r.
ConcPost(r) ==
  LET q == conc.req[r]
      h == inject(q.html, q.brief.logoDataUrl, q.brief.backgroundDataUrl)
  IN  /\ conc.pc = "serving"
      /\ q.pc = "post"
      /\ conc' = [conc EXCEPT !.req[r] =
                    IF ~isValidHTML(q.html)
                      THEN [q EXCEPT !.pc = "thrown"]
                      ELSE [q EXCEPT !.html = h,
                                     !.pc = IF ~isValidHTML(h) \/ violatesExternal(h)
                                              THEN "thrown" ELSE "returned"]]
      /\ UNCHANGED <<genVars, inj, upl, zip, hd, pub>>

ConcNext ==
  \/ \E r \in Requests : ConcCall(r)
  \/ \E r \in Requests : ConcLoopExit(r)
  \/ \E r \in Requests, d \in ConcOutputs : ConcReturn(r, d)
  \/ \E r \in Requests : ConcReject(r)
  \/ \E r \in Requests : ConcPost(r)

ConcSpec == ConcInit /\ [][ConcNext]_vars

(* ------------------- the heading rule on its own ----------------------- *)

MaxHeadingLen == 5

\* Documents handed to hasBannedHeadings: every string of at most
\* MaxHeadingLen pieces, a piece being an opening or closing tag of a heading,
\* another tag, white space, a banned word or other text.
HeadingDocs == SeqsUpTo({"H_OPEN", "H_CLOSE", "TAG", "SP", "FAST", "TXT"}, MaxHeadingLen)

HeadingInit ==
  /\ GenIdle
  /\ inj = Off /\ upl = Off /\ zip = Off /\ conc = Off /\ pub = Off
  /\ \E d \in HeadingDocs : hd = [pc |-> "input", doc |-> d, banned |-> FALSE]

\* hasBannedHeadings(html)
CheckHeadings ==
  /\ hd.pc = "input"
  /\ hd' = [hd EXCEPT !.pc = "checked", !.banned = hasBannedHeadings(hd.doc)]
  /\ UNCHANGED <<genVars, inj, upl, zip, conc, pub>>

HeadingNext == CheckHeadings

HeadingSpec == HeadingInit /\ [][HeadingNext]_vars

(* --------------------------- fallbackHTML ------------------------------ *)

\* A property of p that is undefined takes its default.
Undefined == <<"undefined">>

OrDefault(v, d) == IF v = Undefined THEN d ELSE v

\* Values of p.name, p.ticker and p.description: undefined, the empty string,
\* text, a banned word, and text with an opening or a closing heading tag.
FallbackTexts ==
  {Undefined, <<>>, <<"TXT">>, <<"FAST">>, <<"H_OPEN">>, <<"H_CLOSE">>, <<"H_OPEN", "TXT">>}

FallbackInputs ==
  [name : FallbackTexts, ticker : FallbackTexts, description : FallbackTexts,
   logo : {<<>>, <<"DATA">>}]

\* Mutant of the template: the three cards have headings of their own.
fallbackHTML_OtherCards(p) ==
  LET name == OrDefault(p.name, <<"TXT">>)
      ticker == OrDefault(p.ticker, <<"TXT">>)
      description == OrDefault(p.description, <<"TXT">>)
  IN  <<"DOCTYPE", "SP", "TAG", "SP", "TAG", "SP", "TAG">> \o name \o <<"SP">> \o ticker
        \o <<"TAG", "SP", "TAG", "TXT", "TAG", "SP", "TAG", "SP", "TAG", "SP", "TAG", "SP", "TAG", "SP">>
        \o (IF p.logo # <<>> THEN <<"TAG">> ELSE <<>>)
        \o <<"SP", "H_OPEN">> \o name \o <<"SP", "TAG">> \o ticker \o <<"TAG", "H_CLOSE", "SP", "TAG">>
        \o description \o <<"TAG", "SP", "TAG", "TXT", "TAG", "SP", "TAG", "SP", "TAG", "SP">>
        \o <<"TAG", "H_OPEN", "TXT", "SP", "TXT", "H_CLOSE", "TAG", "TXT", "TAG", "TAG", "SP">>
        \o <<"TAG", "H_OPEN", "TXT", "H_CLOSE", "TAG", "TXT", "TAG", "TAG", "SP">>
        \o <<"TAG", "H_OPEN", "TXT", "H_CLOSE", "TAG", "TXT", "TAG", "TAG", "SP">>
        \o <<"TAG", "SP", "TAG", "SP", "TAG", "TXT", "SP">> \o name \o <<"TAG", "SP", "TAG", "SP", "TAG">>

\* The template of lines 297-338 with the properties of p in their places:
\* the title, the optional logo image, the h1 with name and ticker, the
\* paragraph with the description, the three cards and the footer.
fallbackHTML(p) ==
  LET name == OrDefault(p.name, <<"TXT">>)
      ticker == OrDefault(p.ticker, <<"TXT">>)
      description == OrDefault(p.description, <<"TXT">>)
  IN  <<"DOCTYPE", "SP", "TAG", "SP", "TAG", "SP", "TAG">> \o name \o <<"SP">> \o ticker
        \o <<"TAG", "SP", "TAG", "TXT", "TAG", "SP", "TAG", "SP", "TAG", "SP", "TAG", "SP", "TAG", "SP">>
        \o (IF p.logo # <<>> THEN <<"TAG">> ELSE <<>>)
        \o <<"SP", "H_OPEN">> \o name \o <<"SP", "TAG">> \o ticker \o <<"TAG", "H_CLOSE", "SP", "TAG">>
        \o description \o <<"TAG", "SP", "TAG", "TXT", "TAG", "SP", "TAG", "SP", "TAG", "SP">>
        \o <<"TAG", "H_OPEN", "FAST", "H_CLOSE", "TAG", "TXT", "TAG", "TAG", "SP">>
        \o <<"TAG", "H_OPEN", "CUSTOMIZABLE", "H_CLOSE", "TAG", "TXT", "TAG", "TAG", "SP">>
        \o <<"TAG", "H_OPEN", "RELIABLE", "H_CLOSE", "TAG", "TXT", "TAG", "TAG", "SP">>
        \o <<"TAG", "SP", "TAG", "SP", "TAG", "TXT", "SP">> \o name \o <<"TAG", "SP", "TAG", "SP", "TAG">>

FallbackInit ==
  /\ GenIdle
  /\ inj = Off /\ upl = Off /\ zip = Off /\ conc = Off /\ pub = Off
  /\ \E p \in FallbackInputs :
        hd = [pc |-> "input", p |-> p, doc |-> <<>>, valid |-> FALSE, external |-> FALSE,
              banned |-> FALSE]

\* fallbackHTML(p), and the three rules applied to its result.
BuildFallback ==
  /\ hd.pc = "input"
  /\ LET doc == fallbackHTML(hd.p)
     IN  hd' = [hd EXCEPT !.pc = "built", !.doc = doc,
                          !.valid = isValidHTML(doc),
                          !.external = violatesExternal(doc),
                          !.banned = hasBannedHeadings(doc)]
  /\ UNCHANGED <<genVars, inj, upl, zip, conc, pub>>

FallbackNext == BuildFallback

FallbackSpec == FallbackInit /\ [][FallbackNext]_vars

(* ------------------------------- publish ------------------------------- *)

MaxPathLen == 4

\* a.path of the one asset of the request body, character by character; <<>>
\* is the absent path.
AssetPaths == SeqsUpTo({".", "/", "a"}, MaxPathLen)

\* .replace(/^\/*/, '')
RECURSIVE StripLeadingSlashes(_)
StripLeadingSlashes(path) ==
  IF path # <<>> /\ Head(path) = "/" THEN StripLeadingSlashes(Tail(path)) ELSE path

\* Mutant of the second replace: without the g flag only the first '..' goes.
RemoveDotDot_Once(path) ==
  IF \E i \in 1..(Len(path) - 1) : path[i] = "." /\ path[i + 1] = "."
    THEN LET i == CHOOSE k \in 1..(Len(path) - 1) :
                     /\ path[k] = "." /\ path[k + 1] = "."
                     /\ \A j \in 1..(k - 1) : ~(path[j] = "." /\ path[j + 1] = ".")
         IN  SubSeq(path, 1, i - 1) \o SubSeq(path, i + 2, Len(path))
    ELSE path

\* .replace(/\.\./g, ''): the matches are found from left to right in the
\* original string and do not overlap.
RECURSIVE RemoveDotDot(_)
RemoveDotDot(path) ==
  IF Len(path) < 2 THEN path
  ELSE IF path[1] = "." /\ path[2] = "." THEN RemoveDotDot(SubSeq(path, 3, Len(path)))
  ELSE <<path[1]>> \o RemoveDotDot(Tail(path))

\* a.path.replace(/^\/*/, '').replace(/\.\./g, '')
SafePath(path) == RemoveDotDot(StripLeadingSlashes(path))

\* The files handed to uploadToPaths: index.html and the asset, if it has a path.
PublishFiles(path) ==
  <<<<"i">>>> \o (IF path # <<>> THEN <<SafePath(path)>> ELSE <<>>)

\* The path below the target directory that put writes: `${targetBase}/${f.path}`
\* in part_005, with the leading slashes of f.path removed in part_002.
RemotePath(variant, path) ==
  IF variant = "part_002" THEN StripLeadingSlashes(path) ELSE path

\* The two versions of the publish flow in the repository.
Variants == {"part_002", "part_005"}

\* The two target directories.
Targets == {1, 2}

PublishInit ==
  /\ GenIdle
  /\ inj = Off /\ upl = Off /\ zip = Off /\ conc = Off /\ hd = Off
  /\ \E v \in Variants, path \in AssetPaths, ok \in BOOLEAN :
        pub = [pc |-> "received", variant |-> v, path |-> path, required |-> ok,
               files |-> <<>>, target |-> 1, file |-> 1,
               opened |-> 0, open |-> FALSE, written |-> {}, status |-> 0]

\* if (!subdomain || !html) return res.status(400)
PublishReject ==
  /\ pub.pc = "received"
  /\ ~pub.required
  /\ pub' = [pub EXCEPT !.pc = "done", !.status = 400]
  /\ UNCHANGED <<genVars, inj, upl, zip, conc, hd>>

\* The files are collected.  part_002 calls ensureSubdomainExists before
\* uploadToPaths, part_005 connects first.
PublishStart ==
  /\ pub.pc = "received"
  /\ pub.required
  /\ pub' = [pub EXCEPT !.files = PublishFiles(pub.path),
                        !.pc = IF pub.variant = "part_002" THEN "subdomain" ELSE "connect"]
  /\ UNCHANGED <<genVars, inj, upl, zip, conc, hd>>

\* ensureSubdomainExists resolves or throws.  In part_005 it runs inside
\* uploadToPaths after connect, outside any try: a throw goes to the catch
\* clause of the handler.
EnsureSubdomain(ok) ==
  /\ pub.pc = "subdomain"
  /\ pub' = IF ok
              THEN [pub EXCEPT !.pc = IF pub.variant = "part_002" THEN "connect" ELSE "put"]
              ELSE [pub EXCEPT !.pc = "done", !.status = 500]
  /\ UNCHANGED <<genVars, inj, upl, zip, conc, hd>>

\* sftp.connect resolves or rejects.  part_002 runs client.end() in finally.
Connect(ok) ==
  /\ pub.pc = "connect"
  /\ pub' = IF ok
              THEN [pub EXCEPT !.opened = pub.opened + 1, !.open = TRUE,
                               !.pc = IF pub.variant = "part_002" THEN "put" ELSE "subdomain"]
              ELSE [pub EXCEPT !.pc = "done", !.status = 500]
  /\ UNCHANGED <<genVars, inj, upl, zip, conc, hd>>

\* The directories are made (errors ignored) and the next file is put; put
\* resolves or rejects.  After the last file of the last target the
\* connection is ended and 200 is answered.
Put(ok) ==
  /\ pub.pc = "put"
  /\ LET last == pub.target = 2 /\ pub.file = Len(pub.files)
         remote == [target |-> pub.target, path |-> RemotePath(pub.variant, pub.files[pub.file])]
     IN  pub' = IF ~ok
                  THEN [pub EXCEPT !.pc = "done", !.status = 500,
                                   !.open = IF pub.variant = "part_002" THEN FALSE ELSE pub.open]
                ELSE IF last
                  THEN [pub EXCEPT !.written = pub.written \cup {remote},
                                   !.open = FALSE, !.pc = "done", !.status = 200]
                ELSE [pub EXCEPT !.written = pub.written \cup {remote},
                                 !.file = IF pub.file = Len(pub.files) THEN 1 ELSE pub.file + 1,
                                 !.target = IF pub.file = Len(pub.files) THEN 2 ELSE pub.target]
  /\ UNCHANGED <<genVars, inj, upl, zip, conc, hd>>

PublishNext ==
  \/ PublishReject
  \/ PublishStart
  \/ \E ok \in BOOLEAN : EnsureSubdomain(ok)
  \/ \E ok \in BOOLEAN : Connect(ok)
  \/ \E ok \in BOOLEAN : Put(ok)

PublishSpec == PublishInit /\ [][PublishNext]_vars


(* ------------------------------- claims ------------------------------- *)

\* generateSiteHTML has ended, by return or by throw.
GenEnded == pc \in {"returned", "thrown"} \/ (pc = "responded" /\ response.status # 400)

\* generateSiteHTML returned html.
Returned == pc = "returned" \/ (pc = "responded" /\ response.status = 200)

\* generateSiteHTML threw error.
Threw == pc = "thrown" \/ (pc = "responded" /\ response.status = 502)

\* Every one of the R+1 attempts was validated negatively.
AllAttemptsFailed == failed = maxRetries + 1

\* The three validation rules of the specification.
PassesThreeRules(h) == isValidHTML(h) /\ ~violatesExternal(h) /\ ~hasBannedHeadings(h)

\* C1: every document generateSiteHTML returns starts with the doctype, has no
\* external resource reference and has no banned heading.
C1_ReturnedDocumentPassesAllRules == Returned => PassesThreeRules(html)

\* C2: one call of generateSiteHTML invokes the generation API at most R+1
\* times, whatever the API returns.
C2_AtMostRPlusOneCalls == calls <= maxRetries + 1

\* C2 witness: a request with R = 2 that has ended after three API calls.
C2_Witness == GenEnded /\ maxRetries = 2 /\ calls = 3

\* C3: when all R+1 attempts failed validation, generateSiteHTML throws an
\* error that carries a failure reason, and returns no document, whichever of
\* the three rules the last attempt violated.
C3_AllFailedThrowsWithReason ==
  (GenEnded /\ AllAttemptsFailed /\ lastReason \in {R_DOCTYPE, R_EXTERNAL, R_HEADINGS})
     => (Threw /\ error # <<>>)

\* C4: when all attempts failed validation, the error surfaced names the reason
\* recorded for the last attempt and no other reason.
C4_SurfacedReasonIsLastReason ==
  (Threw /\ AllAttemptsFailed) =>
     /\ Includes(error, lastReason)
     /\ \A r \in Reasons \ {lastReason} : ~Includes(error, r)

\* An iteration's validation has just run on html': the awaited call settled
\* and the iteration ended in continue or break.
Validated == pc = "awaiting" /\ pc' \in {"loop", "post"}

\* C5 as stated: an output that passes the three rules is accepted on that
\* attempt.
C5_PassingThreeRulesIsAccepted ==
  [][(Validated /\ PassesThreeRules(html')) => pc' = "post"]_vars

\* C5 amended: an output that passes the three rules and holds at least one of
\* the two placeholder tokens is accepted on that attempt; when that attempt is
\* the first, one API call was made, with the primary prompt, and none follows.
C5_PassingAllGatesIsAccepted ==
  /\ [][(Validated /\ PassesThreeRules(html')
           /\ (Includes(html', LOGO_TOKEN) \/ Includes(html', BG_TOKEN)))
          => /\ pc' = "post"
             /\ attempts' = 1 => (calls' = 1 /\ request'.prompt = primaryPrompt(brief))]_vars
  /\ []((GenEnded /\ attempts = 1) => (calls = 1 /\ request.prompt = primaryPrompt(brief)))

\* C5 witness: with R = 2 the first output passed every gate with only the
\* background token in it, and the loop was left after one call.
C5_Witness ==
  /\ pc = "post" /\ maxRetries = 2 /\ attempts = 1 /\ calls = 1 /\ failed = 0
  /\ PassesThreeRules(html) /\ Includes(html, BG_TOKEN) /\ ~Includes(html, LOGO_TOKEN)

\* The constructs the external-resource rule names: an iframe tag, a script
\* tag with src, a stylesheet link, a CSS @import.
HasExternalConstruct(h) ==
  \E i \in DOMAIN h : h[i] \in {"IFRAME", "SCRIPT_SRC", "LINK", "LINK_CDN", "IMPORT"}

\* C6: an output with an iframe, a script src, a stylesheet link or an @import
\* is rejected by the external-resource rule, whatever precedes the construct.
C6_ExternalConstructIsRejected ==
  (pc \in {"loop", "post"} /\ attempts >= 1 /\ isValidHTML(html) /\ HasExternalConstruct(html))
     => (pc = "loop" /\ lastReason = R_EXTERNAL)

\* The error thrown at line 140, after the loop.
IsExhaustionError(e) == Len(e) = 2 /\ e[1] = "AI generation failed after retries: "

\* C7: the exhaustion error is thrown only after R+1 attempts that all failed
\* validation, and after k < R+1 failed attempts the loop makes attempt k+1.
C7_FailureOnlyWhenExhausted ==
  /\ []((Threw /\ IsExhaustionError(error))
          => (attempts = maxRetries + 1 /\ failed = maxRetries + 1 /\ calls = maxRetries + 1))
  /\ [][(pc = "loop" /\ attempts < maxRetries + 1)
          => (pc' = "awaiting" /\ attempts' = attempts + 1 /\ calls' = calls + 1)]_vars

\* C7 witness: with R = 2 the exhaustion error was thrown after three failed
\* attempts.
C7_Witness ==
  pc = "thrown" /\ IsExhaustionError(error) /\ maxRetries = 2 /\ failed = 3 /\ calls = 3

\* C8: the response to an upstream error has an error kind that no response to
\* an exhaustion has, and the errored call is within the R+1 budget.
C8_UpstreamKindIsDistinct ==
  (pc = "responded" /\ response.status = 502 /\ response.detail = UpstreamError)
     => /\ \A r \in Reasons : response.error # Failure(ExhaustedError(r)).error
        /\ calls <= maxRetries + 1

\* The output is empty or not a string.
Malformed(v) == v.type \in {"undefined", "number"} \/ (v.type = "string" /\ v.text = <<>>)

\* C9: an empty or non-string output is handled as a structural validation
\* failure: the structural reason is recorded, the attempt counts as failed,
\* and no error other than the exhaustion of the retries ends the loop.
C9_MalformedOutputIsStructuralFailure ==
  (pc # "awaiting" /\ Malformed(output))
     => /\ lastReason = R_DOCTYPE
        /\ failed = attempts
        /\ error \in {<<>>, ExhaustedError(R_DOCTYPE)}

\* The payload names the attempt count: in a field of its own or in its detail.
NamesAttemptCount(resp) ==
  \/ "attempts" \in DOMAIN resp
  \/ ("detail" \in DOMAIN resp /\ Includes(resp.detail, ToString(attempts)))

\* C10: after all attempts failed validation the caller receives an error
\* payload that names the last failure reason and the attempt count.
C10_ExhaustionPayloadNamesReasonAndCount ==
  (pc = "responded" /\ AllAttemptsFailed)
     => /\ response.status = 502
        /\ Includes(response.detail, lastReason)
        /\ NamesAttemptCount(response)

\* C11: every request sent to the generation API holds the two placeholder
\* tokens in its asset fields, and until the loop has ended the document holds
\* no token of the supplied logo or background.
C11_RequestsCarryOnlyPlaceholders ==
  /\ calls >= 1 =>
       /\ request.user.logoDataUrl = <<LOGO_TOKEN>>
       /\ request.user.backgroundDataUrl = <<BG_TOKEN>>
  /\ pc \in {"loop", "awaiting", "post"} =>
       \A i \in DOMAIN html :
          /\ \A j \in DOMAIN payload.logo : html[i] # payload.logo[j]
          /\ \A j \in DOMAIN payload.background : html[i] # payload.background[j]

\* C11 witness: a revision request of a brief with a logo and a background.
C11_Witness ==
  /\ pc = "awaiting" /\ attempts = 2
  /\ payload.logo = <<"DATA">> /\ payload.background = <<"DATA">>
  /\ request.user.logoDataUrl = <<LOGO_TOKEN>>

\* C12: when the substitution turns a document that passes the three rules
\* into one that violates a rule, generateSiteHTML throws.
C12_BadSubstitutionIsFatal ==
  [][(pc = "post" /\ PassesThreeRules(html) /\ ~PassesThreeRules(html')) => pc' = "thrown"]_vars

\* C14: a body with neither name nor description is answered with 400 before
\* any API call and any file; a body with one of the two enters generation.
C14_BodyCheck ==
  pc # "start" =>
     IF payload.name = "" /\ payload.description = ""
       THEN pc = "responded" /\ response.status = 400 /\ calls = 0 /\ attempts = 0 /\ files = {}
       ELSE response.status # 400 /\ (pc = "loop" \/ calls >= 1)

\* C14 witness: a body with neither field was answered with 400.
C14_Witness == pc = "responded" /\ response.status = 400 /\ payload.name = ""

\* C15: at most one document is written, and only the one generateSiteHTML
\* returned, under the id of the response; when generation fails, by
\* exhaustion or by an upstream error, nothing is written and the response
\* is the error payload.
C15_OneDocumentPersisted ==
  /\ Cardinality(files) <= 1
  /\ files # {} => (pc = "responded" /\ response.status = 200)
  /\ (pc = "responded" /\ response.status = 200) =>
        /\ files = {[dir |-> response.id, file |-> "index.html", content |-> response.html]}
        /\ response.url = <<"BASE_URL", "/sites/", response.id, "/">>
        /\ response.html = html
  /\ (pc = "responded" /\ (AllAttemptsFailed \/ error # <<>>)) =>
        /\ files = {}
        /\ response.status = 502
        /\ {"error", "message"} \subseteq DOMAIN response

C20_PromptOfEachAttempt ==
  pc = "awaiting" =>
     IF attempts = 1
       THEN request.prompt = <<"Build a polished landing page.", brief.name, brief.description>>
       ELSE /\ request.prompt = <<"REVISION: Previous HTML failed because: ", lastReason>>
            /\ lastReason \in Reasons
            /\ lastReason = GateReason(html)

\* C20 witness: the third request carries the heading reason of the second
\* output.
C20_Witness ==
  /\ pc = "awaiting" /\ attempts = 3 /\ hasBannedHeadings(html)
  /\ request.prompt[2] = R_HEADINGS

\* C13: applying inject twice gives the same document as applying it once.
C13_InjectIsIdempotent ==
  inj.pc = "twice" => inj.twice = inj.once

\* C16: two distinct uploads never receive the same stored file name, and the
\* file of every answered upload is still the one that upload stored.
C16_UploadsNeverCollide ==
  upl.pc = "serving" =>
     /\ \A u, v \in upl.responses : u.upload # v.upload => u.path # v.path
     /\ \A u \in upl.responses :
           \E f \in upl.disk : <<"/uploads/">> \o f.filename = u.path /\ f.content = u.upload

\* C18: the archive holds index.html, and every ./assets/<file> reference
\* the server injected into index.html has an entry assets/<file>.
C18_InjectedReferencesAreArchived ==
  (zip.pc = "done" /\ zip.status = 200) =>
     /\ [dir |-> "", name |-> "index.html"] \in zip.entries
     /\ \A i \in DOMAIN zip.html :
           zip.html[i].name # "" => [dir |-> "assets", name |-> zip.html[i].name] \in zip.entries

\* What the locals and the outcome of a call are when they depend on its own
\* brief and the outputs of its own calls only.
OwnHistoryOnly(q) ==
  LET n == Len(q.outs)
      last == IF n = 0 THEN <<>> ELSE Trim(q.outs[n])
      lastFailed == n > 0 /\ GateReason(last) # ""
      injected == inject(last, q.brief.logoDataUrl, q.brief.backgroundDataUrl)
      loopEnded == (n > 0 /\ ~lastFailed) \/ n = DefaultRetries + 1
  IN  /\ q.attempts = n + (IF q.pc = "awaiting" \/ q.rejected THEN 1 ELSE 0)
      /\ q.lastReason = IF n = 0 THEN ""
                        ELSE IF lastFailed THEN GateReason(last)
                        ELSE IF n = 1 THEN ""
                        ELSE GateReason(Trim(q.outs[n - 1]))
      /\ q.pc \in {"loop", "awaiting", "post"} => q.html = last
      /\ q.pc = "loop" => (n = 0 \/ lastFailed)
      /\ q.pc = "awaiting" => q.prompt = (IF n = 0 THEN "" ELSE GateReason(last))
      /\ q.pc = "post" => loopEnded
      /\ q.rejected => q.pc = "thrown"
      /\ q.pc = "returned" =>
            /\ loopEnded /\ isValidHTML(last)
            /\ q.html = injected /\ isValidHTML(injected) /\ ~violatesExternal(injected)
      /\ (q.pc = "thrown" /\ ~q.rejected) =>
            /\ loopEnded
            /\ ~isValidHTML(last) \/ ~isValidHTML(injected) \/ violatesExternal(injected)

\* C17: under every interleaving of two calls, the counter, reason, output,
\* number of external calls and outcome of each are those its own brief and
\* its own outputs give.
C17_CallsDoNotInterfere ==
  conc.pc = "serving" => \A r \in Requests : OwnHistoryOnly(conc.req[r])

\* C17 witness: call 1 sends a revision for its banned heading while call 2,
\* started in between, has recorded the structural reason.
C17_Witness ==
  /\ conc.pc = "serving"
  /\ conc.req[1].pc = "awaiting" /\ conc.req[1].attempts = 2
  /\ conc.req[1].prompt = R_HEADINGS
  /\ conc.req[2].pc = "loop" /\ conc.req[2].lastReason = R_DOCTYPE

\* The states of the loop: an iteration can still run; the loop was left by
\* break; the loop was left with the budget used up and the last attempt
\* failed; the loop was left by an exception of an iteration.
LoopStarted == pc \in {"loop", "awaiting", "post", "returned", "thrown"} \/ (pc = "responded" /\ calls >= 1)

Aborted == pc \in {"thrown", "responded"} /\ error \in {UpstreamError, TrimTypeError}

Attempting == pc = "awaiting" \/ (pc = "loop" /\ attempts <= maxRetries)

Accepted == pc \in {"post", "returned", "thrown", "responded"} /\ failed < attempts /\ ~Aborted

Exhausted == pc # "awaiting" /\ attempts > maxRetries /\ failed = attempts /\ ~Aborted

ExactlyOne(S) == \E x \in DOMAIN S : S[x] /\ \A y \in DOMAIN S : S[y] => y = x

\* C21 as stated: the loop is always in exactly one of Attempting, Accepted,
\* Exhausted.
C21_ThreeLoopStates ==
  LoopStarted => ExactlyOne(<<Attempting, Accepted, Exhausted>>)

\* C21: the loop is always in exactly one of Attempting, Accepted, Exhausted,
\* Aborted; the last three are terminal and no call is made in them; Accepted
\* is entered only on a validation success, Exhausted only when the count
\* exceeds R with the last attempt failed, Aborted only by an exception.
C21_FourLoopStates ==
  /\ [](LoopStarted => ExactlyOne(<<Attempting, Accepted, Exhausted, Aborted>>))
  /\ [][(Accepted => Accepted') /\ (Exhausted => Exhausted') /\ (Aborted => Aborted')]_vars
  /\ [][(Accepted \/ Exhausted \/ Aborted) => calls' = calls]_vars
  /\ [][(Attempting /\ Accepted') =>
           (pc = "awaiting" /\ PassesThreeRules(html') /\ ~missingPlaceholders(html'))]_vars
  /\ [][(Attempting /\ Exhausted') =>
           (pc = "awaiting" /\ attempts' > maxRetries /\ lastReason' \in Reasons
              /\ ~(PassesThreeRules(html') /\ ~missingPlaceholders(html')))]_vars
  /\ [][(Attempting /\ Aborted') => (pc = "awaiting" /\ pc' = "thrown")]_vars

\* C21 witness: the second call threw after a failed first attempt.
C21_Witness == Aborted /\ error = UpstreamError /\ attempts = 2 /\ failed = 1

\* C22: a call is issued only when no call is in flight and every output so
\* far has been received and validated, so at most one call is in flight.
C22_AttemptsAreSequential ==
  /\ [](pc = "awaiting" => (output.type = "pending" /\ calls = failed + 1))
  /\ [](pc # "awaiting" => calls - failed \in {0, 1})
  /\ [][calls' # calls =>
          /\ calls' = calls + 1
          /\ pc = "loop" /\ pc' = "awaiting"
          /\ failed = calls
          /\ calls >= 1 => (output.type \in {"string", "undefined"}
                              /\ html = Trim(output.text) /\ lastReason \in Reasons)]_vars

\* C22 witness: the third call is in flight after two validated failures.
C22_Witness == pc = "awaiting" /\ attempts = 3 /\ failed = 2 /\ calls = 3

\* C23: when every call eventually settles, generateSiteHTML eventually
\* returns or throws.
C23_GenerationTerminates ==
  (pc = "loop" /\ attempts = 0) ~> (pc \in {"returned", "thrown"})

\* C23 witness: the loop ran through its whole budget and the function ended.
C23_Witness ==
  /\ pc \in {"returned", "thrown"}
  /\ maxRetries = MaxR /\ attempts = MaxR + 1 /\ failed = MaxR + 1

\* C25: an output that passes the three rules and holds neither token fails
\* the attempt with the placeholder reason, and a revision follows while
\* attempts remain; one that holds a token ends the loop.
C25_PlaceholderGate ==
  /\ [][(Validated /\ PassesThreeRules(html')) =>
          IF ~Includes(html', LOGO_TOKEN) /\ ~Includes(html', BG_TOKEN)
            THEN /\ pc' = "loop" /\ failed' = failed + 1
                 /\ lastReason' = "Missing asset placeholders %%LOGO_DATA_URL%% / %%BG_DATA_URL%%."
            ELSE pc' = "post" /\ failed' = failed]_vars
  /\ [][(pc = "loop" /\ lastReason = R_PLACEHOLDERS /\ attempts <= maxRetries) =>
          (pc' = "awaiting" /\ request'.prompt = <<"REVISION: Previous HTML failed because: ", R_PLACEHOLDERS>>)]_vars

\* C25 witness: a revision request after an output without a token.
C25_Witness ==
  /\ pc = "awaiting" /\ attempts = 2 /\ PassesThreeRules(html)
  /\ lastReason = R_PLACEHOLDERS

\* The call in flight has rejected.
CallThrew == output.type = "pending" /\ pc \in {"thrown", "responded"} /\ calls >= 1

HeadingElementTexts(d) ==
  { LET ends == {j \in (i + 1)..Len(d) : d[j] \in {"H_OPEN", "H_CLOSE"}}
        stop == IF ends = {} THEN Len(d) + 1
                ELSE CHOOSE j \in ends : \A k \in ends : j <= k
    IN  Trim(SelectSeq(SubSeq(d, i + 1, stop - 1), LAMBDA t : t \notin {"TAG", "H_OPEN", "H_CLOSE"}))
    : i \in {k \in DOMAIN d : d[k] = "H_OPEN"} }

\* C24: the rule rejects a document exactly when the text of one of its
\* heading elements equals a banned word.
C24_BannedExactlyWhenHeadingTextEquals ==
  hd.pc = "checked" =>
     (hd.banned <=> \E t \in HeadingElementTexts(hd.doc) :
                       t \in {<<"FAST">>, <<"CUSTOMIZABLE">>, <<"RELIABLE">>})

\* C30: for every input the fallback document starts with the doctype and is
\* rejected by the banned-heading rule.
C30_FallbackIsAlwaysRejected ==
  hd.pc = "built" =>
     /\ hd.valid /\ Head(hd.doc) = "DOCTYPE"
     /\ hd.banned
     /\ \A w \in {"FAST", "CUSTOMIZABLE", "RELIABLE"} :
           \E i \in 2..(Len(hd.doc) - 1) :
              hd.doc[i - 1] = "H_OPEN" /\ hd.doc[i] = w /\ hd.doc[i + 1] = "H_CLOSE"

\* C30 witness: a description that opens a heading it never closes.
C30_Witness ==
  /\ hd.pc = "built" /\ hd.p.description = <<"H_OPEN">> /\ hd.p.name = Undefined
  /\ hd.banned

\* C27: a document generateSiteHTML returns holds no placeholder token,
\* whatever the supplied asset values.
C27_ReturnedDocumentHasNoToken ==
  (inj.pc \in {"once", "twice"} /\ inj.result = "returned") =>
     \A i \in DOMAIN inj.once : inj.once[i] \notin {"LOGO", "BG"}

\* C28: no publish request that has ended leaves a connection open.
C28_ConnectionIsClosed ==
  pub.pc = "done" => ~pub.open

\* The segments of a path between its slashes.
RECURSIVE Segments(_)
Segments(path) ==
  IF \E i \in DOMAIN path : path[i] = "/"
    THEN LET i == CHOOSE k \in DOMAIN path : path[k] = "/" /\ \A j \in 1..(k - 1) : path[j] # "/"
         IN  <<SubSeq(path, 1, i - 1)>> \o Segments(SubSeq(path, i + 1, Len(path)))
    ELSE <<path>>

\* Walking the segments from the target directory never leaves it.
RECURSIVE StaysInside(_, _)
StaysInside(segs, depth) ==
  IF segs = <<>> THEN TRUE
  ELSE IF Head(segs) = <<".", ".">> THEN depth > 0 /\ StaysInside(Tail(segs), depth - 1)
  ELSE IF Head(segs) \in {<<>>, <<".">>} THEN StaysInside(Tail(segs), depth)
  ELSE StaysInside(Tail(segs), depth + 1)

\* C29: every path written has no '..' and lies inside the target directory.
C29_WrittenPathsStayInside ==
  pub.pc # "off" =>
     \A w \in pub.written :
        /\ \A i \in 1..(Len(w.path) - 1) : ~(w.path[i] = "." /\ w.path[i + 1] = ".")
        /\ StaysInside(Segments(w.path), 0)

\* C29 witness: the asset path '../a' was received and its file was put
\* as '/a' below both targets.
C29_Witness ==
  /\ pub.pc = "done" /\ pub.status = 200 /\ pub.variant = "part_005"
  /\ pub.path = <<".", ".", "/", "a">>
  /\ \A t \in Targets : [target |-> t, path |-> <<"/", "a">>] \in pub.written

=============================================================================
